---- MODULE Spec2Model ----
(***************************************************************************)
(* A model of the simulation core of the snake game in src/src/main.rs.    *)
(*                                                                         *)
(* The game is a set of Bevy systems.  Three groups of systems mutate the  *)
(* simulation state, and each group is one action here:                    *)
(*   InputPass     snake_movement_input (runs every frame)                 *)
(*   MovementTick  snake_movement; snake_eating; snake_growth, with        *)
(*                 game_over of the same frame (FixedTimestep 0.10)        *)
(*   StatusTick    update_game_status; food_spawner, with                  *)
(*                 handle_render_event of the same frame (FixedTimestep 3) *)
(* Commands (spawn, despawn) are applied when the frame's stage ends, so   *)
(* a tick's effects are all in place before the next tick starts.          *)
(*                                                                         *)
(* The grid and the two thresholds are scaled down from the build's values *)
(* (35 x 30, 50, 15); the transitions are those of the code.               *)
(***************************************************************************)
EXTENDS Integers, Sequences, FiniteSets, TLC

\* main.rs:14 GRID_WIDTH: u32 = 35, scaled down; the start cell (3,3) needs >= 4
GRID_WIDTH == 4
\* main.rs:13 GRID_HEIGHT: u32 = 30, scaled down; the start cell (3,3) needs >= 4
GRID_HEIGHT == 4
\* main.rs:15 FOOD_WIN_AMOUNT: u32 = 50, scaled down
FOOD_WIN_AMOUNT == 2
\* main.rs:16 FALL_BEHIND_LOSS_AMOUNT: u32 = 15, scaled down
FALL_BEHIND_LOSS_AMOUNT == 2
\* how many values of each axis the random draws of food_spawner range over
MaxDraws == 2

VARIABLES
    status,              \* GameStatus of the GameState entity
    devoured,            \* DevouredFood.0 (u32)
    rendered,            \* RenderedFood.0 (u32)
    body,                \* SnakeBody.0: the segment handles, head first
    positions,           \* Position of every live segment entity
    direction,           \* SnakeHead.direction
    food,                \* live Food entities: how many lie on each occupied cell
    last_tail_position,  \* LastTailPosition.0: Option<Position>
    growth_events,       \* GrowthEvents sent and not yet read by snake_growth
    game_over_events,    \* every GameOverEvent sent so far, in order
    panic                \* "none", or the panic that ended the process

vars == <<status, devoured, rendered, body, positions, direction, food,
          last_tail_position, growth_events, game_over_events, panic>>

\* enum GameStatus
GameStatus == {"InProgress", "Won", "Lost"}

\* enum Direction
Direction == {"Left", "Up", "Right", "Down"}

\* struct Position { x: i32, y: i32 }
Position(x, y) == [x |-> x, y |-> y]

\* the cells of the grid
Cells == {Position(x, y) : x \in 0 .. GRID_WIDTH - 1, y \in 0 .. GRID_HEIGHT - 1}

\* Option<Position>::None
None == [none |-> TRUE]

\* the entity spawn_snake creates first: the one carrying SnakeHead
HeadEntity == 1

\* impl Neg for Direction
neg(d) ==
    CASE d = "Left" -> "Right"
      [] d = "Right" -> "Left"
      [] d = "Up" -> "Down"
      [] d = "Down" -> "Up"

\* heads.iter_mut().next() is Some: the head entity has not been despawned
HeadPresent == HeadEntity \in DOMAIN positions

\* no live Food entity
NoFood == <<>>

\* the number of live Food entities
FoodCount ==
    LET RECURSIVE Sum(_)
        Sum(S) == IF S = {} THEN 0
                  ELSE LET c == CHOOSE c \in S : TRUE IN food[c] + Sum(S \ {c})
    IN Sum(DOMAIN food)

----------------------------------------------------------------------------
(* update_game_status *)

\* the rule with the backlog tested first
update_game_status_loss_first(s, r, d) ==
    IF r >= FALL_BEHIND_LOSS_AMOUNT THEN "Lost"
    ELSE IF d >= FOOD_WIN_AMOUNT THEN "Won"
    ELSE s

update_game_status(s, r, d) ==
    IF d >= FOOD_WIN_AMOUNT THEN "Won"
    ELSE IF r >= FALL_BEHIND_LOSS_AMOUNT THEN "Lost"
    ELSE s

(* food_spawner *)

\* food_spawner without its status check
should_draw_always(s) == TRUE

\* should_draw: the status is InProgress (or there is no GameState entity yet)
should_draw(s) == s = "InProgress"

\* get_random_pos: (random::<f32>() * bound as f32) as i32, random in [0, 1):
\* a value of 0 .. bound - 1, of which the MaxDraws highest are explored
get_random_pos(bound) == {v \in 0 .. bound - 1 : v >= bound - MaxDraws}

\* commands.spawn_bundle(..).insert(Food).insert(Position::new(x, y))
spawn_food(f, pos) ==
    IF pos \in DOMAIN f THEN [f EXCEPT ![pos] = @ + 1] ELSE (pos :> 1) @@ f

(* handle_render_event: one increment when at least one event is unread *)

\* handle_render_event that never counts the spawn
handle_render_event_uncounted(count, events) == count

handle_render_event(count, events) ==
    IF events > 0 THEN count + 1 ELSE count

----------------------------------------------------------------------------
(* snake_movement_input *)

\* the keys checked in the order of the enum: Left, Up, Right, Down
requested_direction_by_enum(keys, facing) ==
    IF "Left" \in keys THEN "Left"
    ELSE IF "Up" \in keys THEN "Up"
    ELSE IF "Right" \in keys THEN "Right"
    ELSE IF "Down" \in keys THEN "Down"
    ELSE facing

\* the key checked first wins: Left, Down, Up, Right; no key: the facing
requested_direction(keys, facing) ==
    IF "Left" \in keys THEN "Left"
    ELSE IF "Down" \in keys THEN "Down"
    ELSE IF "Up" \in keys THEN "Up"
    ELSE IF "Right" \in keys THEN "Right"
    ELSE facing

snake_movement_input(keys, facing) ==
    LET dir == requested_direction(keys, facing)
    IN IF dir # neg(facing) THEN dir ELSE facing

----------------------------------------------------------------------------
(* snake_movement *)

\* the step with the low edges clamped one cell short
step_head_short(pos, dir) ==
    CASE dir = "Left" ->
            [pos EXCEPT !.x = (IF pos.x <= 0 THEN GRID_WIDTH - 1 ELSE pos.x) - 1]
      [] dir = "Right" ->
            [pos EXCEPT !.x = (IF pos.x >= GRID_WIDTH - 1 THEN -1 ELSE pos.x) + 1]
      [] dir = "Up" ->
            [pos EXCEPT !.y = (IF pos.y >= GRID_HEIGHT - 1 THEN -1 ELSE pos.y) + 1]
      [] dir = "Down" ->
            [pos EXCEPT !.y = (IF pos.y <= 0 THEN GRID_HEIGHT - 1 ELSE pos.y) - 1]

\* match &head.direction { .. }: the clamp, then the step
step_head(pos, dir) ==
    CASE dir = "Left" ->
            [pos EXCEPT !.x = (IF pos.x <= 0 THEN GRID_WIDTH ELSE pos.x) - 1]
      [] dir = "Right" ->
            [pos EXCEPT !.x = (IF pos.x >= GRID_WIDTH - 1 THEN -1 ELSE pos.x) + 1]
      [] dir = "Up" ->
            [pos EXCEPT !.y = (IF pos.y >= GRID_HEIGHT - 1 THEN -1 ELSE pos.y) + 1]
      [] dir = "Down" ->
            [pos EXCEPT !.y = (IF pos.y <= 0 THEN GRID_HEIGHT ELSE pos.y) - 1]

\* body_positions: the Position of every handle of the body, head first
body_positions == [i \in 1 .. Len(body) |-> positions[body[i]]]

\* the check made against the head's position after the step
self_collision_after_step ==
    \E i \in 2 .. Len(body) :
        body_positions[i] = step_head(positions[HeadEntity], direction)

\* body_positions[1..].contains(&head_pos), head_pos the head's position
\* before the step
self_collision ==
    \E i \in 2 .. Len(body) : body_positions[i] = positions[HeadEntity]

\* the shift made on the positions as they are overwritten: every segment
\* ends on the cell its predecessor has just taken
moved_positions_in_place ==
    [e \in DOMAIN positions |-> step_head(positions[HeadEntity], direction)]

\* the positions after the step: the head stepped, segment i+1 on the
\* position segment i had before (zip of body_positions with body.skip(1))
moved_positions ==
    [e \in DOMAIN positions |->
        IF e = HeadEntity THEN step_head(positions[HeadEntity], direction)
        ELSE LET i == CHOOSE i \in 2 .. Len(body) : body[i] = e
             IN body_positions[i - 1]]

\* the tail recorded after the body has been shifted
recorded_tail_after_move == moved_positions[body[Len(body)]]

\* snake_movement that leaves LastTailPosition as it was
recorded_tail_unwritten == last_tail_position

\* *last_tail_position = LastTailPosition(Some(*body_positions.last().unwrap()))
recorded_tail == body_positions[Len(body)]

\* the status after snake_movement
movement_status == IF self_collision THEN "Lost" ELSE status

\* the GameOverEvent snake_movement sends: the status it has just set
movement_game_over_events ==
    IF self_collision THEN <<movement_status>> ELSE <<>>

(* snake_eating: every Food on the head's cell is despawned, one *)
(* GrowthEvent each                                               *)

eaten_food(f, head_pos) == IF head_pos \in DOMAIN f THEN f[head_pos] ELSE 0

despawn_eaten(f, head_pos) == [c \in DOMAIN f \ {head_pos} |-> f[c]]

\* inc_and_dec without the decrement of the backlog
inc_and_dec_no_dec(d, r) ==
    [devoured |-> d + 1, rendered |-> r, panic |-> "none"]

(* inc_and_dec: eaten.0 += 1; to_eat.0 -= 1.  The u32 subtraction at 0  *)
(* panics in a debug build (and wraps to 2^32 - 1 in a release build):  *)
(* the model records it as a panic.                                     *)

inc_and_dec(d, r) ==
    [devoured |-> d + 1,
     rendered |-> IF r >= 1 THEN r - 1 ELSE r,
     panic |-> IF r >= 1 THEN "none" ELSE "sub_overflow"]

(* snake_growth *)

\* spawn_snake_part that hands back the handle of the current tail
spawn_snake_part_reused(handles) == handles[Len(handles)]

\* spawn_snake_part(..).id(): the handle of a new entity
spawn_snake_part(handles) == Len(handles) + 1

\* last_tail_position.0.unwrap(): panics on None
unwrap_panic(tail) == IF tail = None THEN "unwrap_none" ELSE "none"

(* game_over: on a GameOverEvent every Food and every handle of the list *)
(* is despawned                                                          *)

game_over_positions(pos, handles) ==
    [e \in DOMAIN pos \ {handles[i] : i \in 1 .. Len(handles)} |-> pos[e]]

----------------------------------------------------------------------------
Init ==
    \* setup_game_state; spawn_snake; the startup food_spawner, whose
    \* RenderFoodEvent handle_render_event counts in the first frame
    /\ status = "InProgress"
    /\ devoured = 0
    /\ rendered = handle_render_event(0, 1)
    /\ body = <<HeadEntity, 2>>
    /\ positions = (HeadEntity :> Position(3, 3)) @@ (2 :> Position(3, 2))
    /\ direction = "Up"
    /\ \E x \in get_random_pos(GRID_WIDTH), y \in get_random_pos(GRID_HEIGHT) :
          food = spawn_food(NoFood, Position(x, y))
    /\ last_tail_position = None
    /\ growth_events = 0
    /\ game_over_events = <<>>
    /\ panic = "none"

\* snake_movement_input, for every set of held keys
InputPass ==
    /\ panic = "none"
    /\ HeadPresent
    /\ \E d \in {snake_movement_input(keys, direction) : keys \in SUBSET Direction} :
          direction' = d
    /\ UNCHANGED <<status, devoured, rendered, body, positions, food,
                   last_tail_position, growth_events, game_over_events, panic>>

\* update_game_status, then food_spawner, then handle_render_event
StatusTick ==
    /\ panic = "none"
    /\ LET s == update_game_status(status, rendered, devoured)
       IN /\ status' = s
          /\ IF should_draw(s)
             THEN /\ \E x \in get_random_pos(GRID_WIDTH),
                        y \in get_random_pos(GRID_HEIGHT) :
                        food' = spawn_food(food, Position(x, y))
                  /\ rendered' = handle_render_event(rendered, 1)
             ELSE UNCHANGED <<food, rendered>>
    /\ UNCHANGED <<devoured, body, positions, direction, last_tail_position,
                   growth_events, game_over_events, panic>>

\* snake_movement, snake_eating and snake_growth in this order, and game_over
\* of the same frame, which runs after snake_movement and before or after
\* snake_growth (the schedule does not order the two).  A GrowthEvent that
\* snake_growth leaves unread is read by the next run if the event buffer
\* still holds it then, and is dropped otherwise.
MovementTick ==
    /\ panic = "none"
    /\ HeadPresent \/ growth_events > 0
    /\ \E game_over_first \in BOOLEAN, kept \in BOOLEAN :
        LET moved == HeadPresent
            pos1 == IF moved THEN moved_positions ELSE positions
            status1 == IF moved THEN movement_status ELSE status
            sent == IF moved THEN movement_game_over_events ELSE <<>>
            tail1 == IF moved THEN recorded_tail ELSE last_tail_position
            \* snake_eating
            eaten == IF moved THEN eaten_food(food, pos1[HeadEntity]) ELSE 0
            food1 == IF moved THEN despawn_eaten(food, pos1[HeadEntity])
                     ELSE food
            events == growth_events + eaten
            \* snake_growth
            grows == events > 0
            part == spawn_snake_part(body)
            counted == inc_and_dec(devoured, rendered)
            body1 == IF grows THEN Append(body, part) ELSE body
            \* game_over
            over == sent # <<>>
            despawned == IF game_over_first THEN body ELSE body1
            pos2 == IF over THEN game_over_positions(pos1, despawned) ELSE pos1
            grown == (part :> tail1) @@ pos2
        IN /\ status' = status1
           /\ game_over_events' = game_over_events \o sent
           /\ last_tail_position' = tail1
           /\ body' = body1
           /\ positions' = IF grows /\ (~over \/ game_over_first)
                           THEN grown ELSE pos2
           /\ devoured' = IF grows THEN counted.devoured ELSE devoured
           /\ rendered' = IF grows THEN counted.rendered ELSE rendered
           /\ panic' = IF ~grows THEN panic
                       ELSE IF unwrap_panic(tail1) # "none" THEN unwrap_panic(tail1)
                       ELSE counted.panic
           /\ food' = IF over THEN NoFood ELSE food1
           /\ growth_events' = IF grows /\ kept THEN events - 1 ELSE 0
    /\ UNCHANGED direction

Next == InputPass \/ StatusTick \/ MovementTick

Spec == Init /\ [][Next]_vars

\* the status ticker fires every 3.0 s for as long as the process runs
FairSpec == Spec /\ WF_vars(StatusTick)

----------------------------------------------------------------------------
(* Properties *)

\* a step of snake_movement with the head present: it is the only step that
\* changes a position
Moves == HeadPresent /\ positions' # positions

\* the cell the head steps onto in a movement tick
HeadTarget == step_head(positions[HeadEntity], direction)

\* the head shares its cell with another live segment
Overlap ==
    \E e \in DOMAIN positions \ {HeadEntity} : positions[e] = positions[HeadEntity]

\* C1: once the status is Won it stays Won, and once it is Lost it stays Lost,
\* whatever ticks and input passes follow.
C1_StatusMonotonic ==
    [][/\ status = "Won" => status' = "Won"
       /\ status = "Lost" => status' = "Lost"]_vars

\* C2: every step that takes the status from InProgress to Won or Lost sends
\* exactly one GameOverEvent carrying that status, and no step sends a
\* GameOverEvent while the status is already terminal.
C2_TerminalEventOnce ==
    [][/\ (status = "InProgress" /\ status' # "InProgress")
            => game_over_events' = Append(game_over_events, status')
       /\ status # "InProgress" => game_over_events' = game_over_events]_vars

\* C3: once the status is Won or Lost no step changes a segment's position,
\* the list of segments, the eaten counter or the backlog counter.
C3_NoMutationAfterEnd ==
    [][status # "InProgress"
         => UNCHANGED <<positions, body, devoured, rendered>>]_vars

\* C4 as stated: a movement tick of a snake of length >= 3 whose head steps
\* onto the pre-move position of a non-head segment ends with status Lost.
C4_LostOnSameTick ==
    [][(/\ Moves
        /\ Len(body) >= 3
        /\ \E i \in 2 .. Len(body) : body_positions[i] = HeadTarget)
         => status' = "Lost"]_vars

\* C4 as amended: a movement tick sets Lost and sends GameOverEvent(Lost)
\* exactly when the head shares its cell with another segment before the
\* step, and otherwise leaves the status and the events alone; and a tick
\* whose head steps onto the pre-move position of a segment that is neither
\* the head nor the tail leaves the head sharing its cell with a segment, so
\* that the following movement tick is the one that sets Lost.
C4_LostOnNextTick ==
    [][Moves =>
        /\ IF Overlap
           THEN /\ status' = "Lost"
                /\ game_over_events' = Append(game_over_events, "Lost")
           ELSE /\ status' = status
                /\ game_over_events' = game_over_events
        /\ (/\ HeadPresent'
            /\ \E i \in 2 .. Len(body) - 1 : body_positions[i] = HeadTarget)
             => Overlap']_vars

\* C4 witness: a movement tick found the head on a body segment of a snake of
\* length >= 3 and sent the event.
C4_Witness ==
    /\ game_over_events = <<"Lost">>
    /\ status = "Lost"
    /\ Len(body) >= 3

\* C5: in a movement tick, for the n food items on the cell the head steps
\* onto, eaten rises by n, the backlog falls by n and the snake gains n
\* segments.
C5_GrowthConservation ==
    [][Moves =>
        LET n == eaten_food(food, HeadTarget)
        IN /\ devoured' = devoured + n
           /\ rendered' = rendered - n
           /\ Len(body') = Len(body) + n]_vars

\* C6 as stated: at most one food item is live.
C6_AtMostOneFood == FoodCount <= 1

\* C6 as amended: at most FALL_BEHIND_LOSS_AMOUNT food items are live.
C6_FoodBounded == FoodCount <= FALL_BEHIND_LOSS_AMOUNT

\* C6 witness: status ticks have spawned food up to the bound.
C6_Witness == FoodCount = FALL_BEHIND_LOSS_AMOUNT /\ FoodCount > 1

\* C7: the backlog counter equals the number of live food items.
C7_BacklogIsLiveFood == rendered = FoodCount

\* C8: the u32 decrement of the backlog in inc_and_dec never runs at 0.
C8_NoUnderflow == panic # "sub_overflow"

\* C8 witness: a growth has taken the backlog from 1 to 0.
C8_Witness == devoured >= 1 /\ rendered = 0 /\ panic = "none"

\* C9: a status tick that finds backlog >= FALL_BEHIND_LOSS_AMOUNT and
\* eaten < FOOD_WIN_AMOUNT sets Lost; and no step that starts or ends with a
\* status other than InProgress adds a food item or raises the backlog.
C9_NoSpawnAfterEnd ==
    [][/\ (/\ StatusTick
           /\ rendered >= FALL_BEHIND_LOSS_AMOUNT
           /\ devoured < FOOD_WIN_AMOUNT) => status' = "Lost"
       /\ (status # "InProgress" \/ status' # "InProgress")
            => \A c \in DOMAIN food' : c \in DOMAIN food /\ food'[c] <= food[c]
       /\ (status # "InProgress" \/ status' # "InProgress")
            => rendered' <= rendered]_vars

\* C9 witness: the backlog threshold has ended the game and a status tick
\* has run since.
C9_Witness ==
    /\ status = "Lost"
    /\ game_over_events = <<>>
    /\ rendered >= FALL_BEHIND_LOSS_AMOUNT
    /\ devoured < FOOD_WIN_AMOUNT

\* the unit step of a facing
dx(d) == IF d = "Left" THEN -1 ELSE IF d = "Right" THEN 1 ELSE 0
dy(d) == IF d = "Down" THEN -1 ELSE IF d = "Up" THEN 1 ELSE 0

\* every live segment is on a cell of the grid
InGrid == \A e \in DOMAIN positions : positions[e] \in Cells

\* C10: a movement tick takes the head from (x, y) to
\* ((x + dx) mod GRID_WIDTH, (y + dy) mod GRID_HEIGHT), and every segment is
\* on a cell of the grid in every state.
C10_WrapAround ==
    [][/\ InGrid /\ InGrid'
       /\ (Moves /\ HeadPresent') =>
             positions'[HeadEntity] =
                Position((positions[HeadEntity].x + dx(direction)) % GRID_WIDTH,
                         (positions[HeadEntity].y + dy(direction)) % GRID_HEIGHT)]_vars

\* C10 witness: the head has stepped Left from x = 0 onto x = GRID_WIDTH - 1.
C10_Witness ==
    /\ HeadPresent
    /\ direction = "Left"
    /\ positions[HeadEntity].x = GRID_WIDTH - 1
    /\ positions[body[2]].x = 0

\* the start of the game: spawn_snake's two segments, facing Up
AtStart ==
    /\ positions = (HeadEntity :> Position(3, 3)) @@ (2 :> Position(3, 2))
    /\ direction = "Up"
    /\ status = "InProgress"

\* C11: after a movement tick every segment i >= 1 is on the cell segment
\* i - 1 had before the tick and the head is on the stepped cell of its own;
\* from the start, with the facing still Up, the head goes to (3, 4) (modulo
\* the grid height), the body to (3, 3), and the status stays InProgress.
C11_FollowTheLeader ==
    [][(Moves /\ HeadPresent') =>
        /\ positions'[HeadEntity] =
              Position((positions[HeadEntity].x + dx(direction)) % GRID_WIDTH,
                       (positions[HeadEntity].y + dy(direction)) % GRID_HEIGHT)
        /\ \A i \in 2 .. Len(body) :
              positions'[body[i]] = positions[body[i - 1]]
        /\ AtStart =>
              /\ positions'[HeadEntity] = Position(3, 4 % GRID_HEIGHT)
              /\ positions'[2] = Position(3, 3)
              /\ status' = "InProgress"]_vars

\* C11 witness: a snake of three segments has moved and lies on three cells.
C11_Witness ==
    /\ HeadPresent
    /\ Len(body) >= 3
    /\ last_tail_position # None
    /\ positions[body[2]] # positions[body[3]]
    /\ positions[HeadEntity] # positions[body[2]]

\* the order in which the keys are tested
KeyOrder == <<"Left", "Down", "Up", "Right">>

\* the pairs of opposite directions
Opposites ==
    {<<"Left", "Right">>, <<"Right", "Left">>, <<"Up", "Down">>, <<"Down", "Up">>}

\* the facing the claim expects of an input pass
ExpectedFacing(keys, facing) ==
    IF keys = {} THEN facing
    ELSE LET first == CHOOSE i \in 1 .. 4 :
                         /\ KeyOrder[i] \in keys
                         /\ \A j \in 1 .. i - 1 : KeyOrder[j] \notin keys
             d == KeyOrder[first]
         IN IF <<d, facing>> \in Opposites THEN facing ELSE d

\* C12: whatever the facing of the head is, for every set of held keys the
\* input pass leaves the facing when the requested direction is its opposite
\* or no key is held, and sets the requested direction otherwise, the
\* requested direction being the first held key in the order Left, Down, Up,
\* Right; facing Up, Down leaves Up and Left gives Left.
C12_ReversalRejected ==
    /\ \A keys \in SUBSET Direction :
          snake_movement_input(keys, direction) = ExpectedFacing(keys, direction)
    /\ snake_movement_input({"Down"}, "Up") = "Up"
    /\ snake_movement_input({"Left"}, "Up") = "Left"

\* C12 witness: facing Up, an input pass with Left held has turned the head
\* Left before the first movement tick.
C12_Witness ==
    /\ direction = "Left"
    /\ positions = (HeadEntity :> Position(3, 3)) @@ (2 :> Position(3, 2))

\* the handles of a list
Handles(list) == {list[i] : i \in 1 .. Len(list)}

\* C13: a step either leaves the list of handles as it is or appends one
\* handle that was not in it, and only in a step that counts a growth; the
\* list has at least two handles and no handle twice.
C13_HandlesOnlyGrow ==
    [][/\ \/ body' = body
          \/ /\ Len(body') = Len(body) + 1
             /\ SubSeq(body', 1, Len(body)) = body
             /\ body'[Len(body')] \notin Handles(body)
             /\ devoured' = devoured + 1
       /\ devoured' # devoured => body' # body
       /\ Len(body) >= 2 /\ Len(body') >= 2
       /\ Cardinality(Handles(body')) = Len(body')]_vars

\* C13 witness: two growths have appended two handles.
C13_Witness == Len(body) = 4 /\ devoured = 2

\* C14: a growth puts the new segment on the cell the tail had before the
\* movement tick that processes it (the recorded last tail position); and a
\* movement tick that starts with backlog 1 and eaten 0 and steps the head
\* onto food ends with eaten 1, backlog 0 and one more segment, on that cell.
C14_NewTailOnLastTail ==
    [][/\ (/\ Len(body') = Len(body) + 1
           /\ body'[Len(body')] \in DOMAIN positions')
            => positions'[body'[Len(body')]] =
                  IF HeadPresent THEN positions[body[Len(body)]]
                  ELSE last_tail_position
       /\ (/\ Moves
           /\ rendered = 1
           /\ devoured = 0
           /\ eaten_food(food, HeadTarget) >= 1)
            => /\ devoured' = 1
               /\ rendered' = 0
               /\ Len(body') = Len(body) + 1
               /\ positions'[body'[Len(body')]] = positions[body[Len(body)]]]_vars

\* C14 witness: the first food has been eaten from backlog 1 and the third
\* segment lies on the recorded tail position.
C14_Witness ==
    /\ HeadPresent
    /\ Len(body) = 3
    /\ devoured = 1
    /\ rendered = 0
    /\ positions[body[3]] = last_tail_position

\* the status the rule of C15 gives an InProgress game
ExpectedStatus(r, d) ==
    IF d >= FOOD_WIN_AMOUNT THEN "Won"
    ELSE IF r >= FALL_BEHIND_LOSS_AMOUNT THEN "Lost"
    ELSE "InProgress"

\* C15: a status tick of an InProgress game sets Won if eaten >=
\* FOOD_WIN_AMOUNT, else Lost if backlog >= FALL_BEHIND_LOSS_AMOUNT, else
\* leaves InProgress; the rule gives Won for eaten >= FOOD_WIN_AMOUNT also
\* where backlog >= FALL_BEHIND_LOSS_AMOUNT; no status tick sets Won with
\* eaten below its threshold or Lost with the backlog below its threshold.
C15_StatusRule ==
    [][StatusTick =>
        /\ \A r \in 0 .. FALL_BEHIND_LOSS_AMOUNT + 1, d \in 0 .. FOOD_WIN_AMOUNT + 1 :
              update_game_status("InProgress", r, d) = ExpectedStatus(r, d)
        /\ status = "InProgress" => status' = ExpectedStatus(rendered, devoured)
        /\ (status' = "Won" /\ status # "Won") => devoured >= FOOD_WIN_AMOUNT
        /\ (status' = "Lost" /\ status # "Lost")
              => rendered >= FALL_BEHIND_LOSS_AMOUNT]_vars

\* C15 witness: a status tick has found eaten at the win threshold.
C15_Witness ==
    /\ status = "Won"
    /\ devoured >= FOOD_WIN_AMOUNT
    /\ game_over_events = <<>>

\* C16: in no movement tick does the head step onto the cell of segment 1,
\* the cell it left in the movement tick before.
C16_NoReversal ==
    [][Moves => HeadTarget # positions[body[2]]]_vars

\* C17: the backlog never exceeds FALL_BEHIND_LOSS_AMOUNT.
C17_BacklogBounded == rendered <= FALL_BEHIND_LOSS_AMOUNT

\* C17 witness: the backlog has reached the threshold in a running game.
C17_Witness == rendered = FALL_BEHIND_LOSS_AMOUNT /\ status = "InProgress"

\* two cells one step apart on one axis of the torus
Adjacent(p, q) ==
    LET ax == (p.x - q.x) % GRID_WIDTH
        ay == (p.y - q.y) % GRID_HEIGHT
    IN \/ ax \in {1, GRID_WIDTH - 1} /\ ay = 0
       \/ ax = 0 /\ ay \in {1, GRID_HEIGHT - 1}

C19_SessionEnds ==
    /\ [][/\ \/ devoured' + rendered' = devoured + rendered
             \/ /\ devoured' = devoured
                /\ rendered' = rendered + 1
                /\ FoodCount' = FoodCount + 1
          /\ status' = "InProgress" =>
                devoured' + rendered' < FOOD_WIN_AMOUNT + FALL_BEHIND_LOSS_AMOUNT
          /\ (StatusTick /\ status' = "InProgress") =>
                devoured' + rendered' = devoured + rendered + 1]_vars
    /\ <>(status # "InProgress")

\* C19 witness: the game has ended at the highest eaten + backlog.
C19_Witness ==
    /\ status # "InProgress"
    /\ devoured + rendered = FOOD_WIN_AMOUNT + FALL_BEHIND_LOSS_AMOUNT - 1

\* C20: snake_growth never unwraps an empty LastTailPosition: once a growth
\* has been processed or a GrowthEvent is waiting, it holds a position.
C20_TailRecorded ==
    /\ panic # "unwrap_none"
    /\ (Len(body) > 2 \/ growth_events > 0) => last_tail_position \in Cells

\* C20 witness: a growth has unwrapped the recorded position.
C20_Witness ==
    /\ Len(body) > 2
    /\ panic = "none"
    /\ last_tail_position \in Cells
    /\ positions[body[Len(body)]] = last_tail_position

====
